---- MODULE Spec2Model ----
(***************************************************************************)
(* Model of functions/src/index.ts: the callable evaluateMockInterview,    *)
(* the evaluator evaluateInterviewAnswers and sendEvaluationNotification.  *)
(*                                                                         *)
(* An invocation is an async function.  Between two awaits JavaScript runs *)
(* it to completion, so every action below is "the awaited operation       *)
(* completes with some outcome, and the handler runs on to its next await  *)
(* (or to its end)".  The awaited operations are the document read, the    *)
(* two document updates, each model call and the notification send.        *)
(***************************************************************************)
EXTENDS Integers, Sequences, FiniteSets, TLC

(* ---------------------------------------------------------------- bounds *)

\* Longest interviewQuestions array of a stored document.
MaxQuestions == 2

(* ------------------------------------------------------ JavaScript values *)

\* Values are tagged so that a number, a string, null and undefined can sit in
\* the same field and be compared.
Num(n) == [type |-> "number", num |-> n]
Str(s) == [type |-> "string", str |-> s]
Bool(b) == [type |-> "boolean", bool |-> b]
Arr(s) == [type |-> "array", items |-> s]
Null == [type |-> "null"]
Undefined == [type |-> "undefined"]

\* An object is a function from its own property names to values; reading a
\* property the object does not have yields undefined.
EmptyObject == [k \in {} |-> Undefined]

Get(o, k) == IF k \in DOMAIN o THEN o[k] ELSE Undefined

\* JavaScript truthiness, as used by `!x` and `x || y`.
Truthy(v) == v \notin {Undefined, Null, Str(""), Num(0), Bool(FALSE)}

\* Mutant of Spread: builds the item afresh and forgets the question's fields.
SpreadFresh(q, s, e) == ("score" :> s) @@ ("explanation" :> e)

\* {...question, score: s, explanation: e}
Spread(q, s, e) == ("score" :> s) @@ ("explanation" :> e) @@ q

(* -------------------------------------------------------------- documents *)

Invocations == {"inv1", "inv2"}

\* The invocation the sequential specification runs.
Main == "inv1"

AnswerValues == {Undefined, Null, Str(""), Str("A key-value store")}

\* An InterviewQuestion as stored: candidateAnswer and keywords may be missing
\* from the stored object, since the snapshot is cast, not validated.
Question(text, answer, hasKeywords) ==
    (IF answer = Undefined THEN EmptyObject ELSE "candidateAnswer" :> answer)
    @@ (IF hasKeywords THEN "keywords" :> Arr(<<Str("hash"), Str("map")>>)
        ELSE EmptyObject)
    @@ [difficulty |-> Str("easy"),
        question |-> Str(text),
        topic |-> Str("data structures"),
        score |-> IF text = "qA" THEN Num(0) ELSE Num(5),
        explanation |-> IF text = "qA" THEN Str("") ELSE Str("previous")]

Questions ==
    {Question(t, a, k) : t \in {"qA", "qB"}, a \in AnswerValues, k \in BOOLEAN}

QuestionSeqs(S, n) == UNION {[1..k -> S] : k \in 0..n}

\* An InterviewDocModel; only the fields the handlers read or write.
DocData(questions) ==
    (IF questions = Undefined THEN EmptyObject
     ELSE "interviewQuestions" :> questions)
    @@ [domain |-> Null, analysed |-> Bool(FALSE)]

NoDoc == [exists |-> FALSE, data |-> EmptyObject]

StoredDocs(S, n) ==
    {[exists |-> TRUE, data |-> DocData(qv)] :
        qv \in {Undefined, Null} \cup {Arr(s) : s \in QuestionSeqs(S, n)}}

(* -------------------------------------------------------------- model API *)

\* What the awaited axios.post can produce: a rejected promise (no connection,
\* or a status outside 2xx), a 2xx body with no choices, or a 2xx body whose
\* first choice carries `content`.
Contents ==
    {"not json", "null", "{}", "{\"score\":4}", "{\"explanation\":\"Good\"}",
     "{\"score\":4,\"explanation\":\"Good, could mention collisions\"}"}

ModelResponses ==
    {[kind |-> k, content |-> ""] :
        k \in {"network_error", "http_error", "no_choices"}}
    \cup {[kind |-> "ok", content |-> c] : c \in Contents}

NoResponse == [idx |-> 0, kind |-> "none", content |-> ""]

\* JSON.parse on the texts of Contents: a SyntaxError, the value null, or an
\* object with the keys the text holds.
JSONParse(text) ==
    CASE text = "null" -> [ok |-> TRUE, value |-> Null]
      [] text = "{}" -> [ok |-> TRUE, value |-> EmptyObject]
      [] text = "{\"score\":4}" -> [ok |-> TRUE, value |-> [score |-> Num(4)]]
      [] text = "{\"explanation\":\"Good\"}" ->
            [ok |-> TRUE, value |-> [explanation |-> Str("Good")]]
      [] text = "{\"score\":4,\"explanation\":\"Good, could mention collisions\"}" ->
            [ok |-> TRUE,
             value |-> [score |-> Num(4),
                        explanation |-> Str("Good, could mention collisions")]]
      [] OTHER -> [ok |-> FALSE, value |-> Undefined]

Threw == [threw |-> TRUE, score |-> Undefined, explanation |-> Undefined]

\* The body of the inner try: read choices[0].message.content, parse it, read
\* evaluation.score and evaluation.explanation.  Reading a property of null
\* throws; reading a property an object lacks yields undefined.
EvaluationOf(resp) ==
    IF resp.kind # "ok" THEN Threw
    ELSE LET parsed == JSONParse(resp.content)
         IN  IF ~parsed.ok \/ parsed.value = Null THEN Threw
             ELSE [threw |-> FALSE,
                   score |-> Get(parsed.value, "score"),
                   explanation |-> Get(parsed.value, "explanation")]

(* -------------------------------------------------------------- evaluator *)

NoAnswerItem(q) == Spread(q, Num(0), Str("No answer provided"))

ErrorItem(q) ==
    Spread(q, Num(0), Str("Error evaluating answer. Please try again later."))

\* The item pushed once the model call for question q has settled.
ItemFor(q, resp) ==
    LET evaluation == EvaluationOf(resp)
    IN  IF evaluation.threw THEN ErrorItem(q)
        ELSE Spread(q, evaluation.score, evaluation.explanation)

\* Mutant of EmptyInput: checks for absence only, not for zero length.
EmptyInputAbsentOnly(data) == ~Truthy(Get(data, "interviewQuestions"))

\* The guard of evaluateInterviewAnswers.
EmptyInput(data) ==
    \/ ~Truthy(Get(data, "interviewQuestions"))
    \/ Len(Get(data, "interviewQuestions").items) = 0

\* The questions of a snapshot, the empty sequence when there are none.
QuestionsOf(data) ==
    IF Get(data, "interviewQuestions") \in {Undefined, Null} THEN <<>>
    ELSE Get(data, "interviewQuestions").items

\* Mutant of Unanswered: only a missing property counts as no answer.
UnansweredMissingOnly(q) == Get(q, "candidateAnswer") = Undefined

\* !question.candidateAnswer
Unanswered(q) == ~Truthy(Get(q, "candidateAnswer"))

\* Indices after `from` of the questions that get a model call.
Callable(qs, from) ==
    {k \in (from + 1)..Len(qs) :
        ~Unanswered(qs[k]) /\ Get(qs[k], "keywords") \notin {Undefined, Null}}

\* Mutant of RunLoop: dispatches every remaining call at once.
RunLoopFanOut(qs, done) ==
    IF Callable(qs, Len(done)) = {}
    THEN [kind |-> "return", evaluated |-> done, calls |-> {}]
    ELSE [kind |-> "call", evaluated |-> done, calls |-> Callable(qs, Len(done))]

\* The for loop from the question after `done` up to its next await: an
\* unanswered question gets its placeholder and the loop goes on; an answered
\* one has its prompt built, which throws outside the inner try when keywords
\* is not an array, and otherwise its model call is started.
RECURSIVE RunLoop(_, _)
RunLoop(qs, done) ==
    IF Len(done) = Len(qs)
    THEN [kind |-> "return", evaluated |-> done, calls |-> {}]
    ELSE LET q == qs[Len(done) + 1]
         IN  IF Unanswered(q)
             THEN RunLoop(qs, Append(done, NoAnswerItem(q)))
             ELSE IF Get(q, "keywords") \in {Undefined, Null}
             THEN [kind |-> "throw", evaluated |-> done, calls |-> {}]
             ELSE [kind |-> "call", evaluated |-> done,
                   calls |-> {Len(done) + 1}]

(* ------------------------------------------------------------------ state *)

VARIABLES
    request,             \* per invocation: [auth], whether request.auth is set
    doc,                 \* the stored document users/<userId>/archives/<docId>
    pc,                  \* per invocation: the await it is suspended at
    interviewData,       \* per invocation: docSnapshot.data()
    evaluatedQuestions,  \* per invocation: the evaluator's accumulator
    inflight,            \* model calls started and not yet settled
    response,            \* per invocation: the last settled model call
    notification,        \* per invocation: what the send did
    outcome,             \* per invocation: what the caller gets
    caught,              \* per invocation: the error the outer catch received
    ops                  \* the calls made on the store and the model, in order

vars == <<request, doc, pc, interviewData, evaluatedQuestions, inflight,
          response, notification, outcome, caught, ops>>

\* One entry of ops.  op is "get", "update" or "call"; ok tells whether the
\* store carried it out; fields is an update's argument and idx a call's
\* question index.
Op(i, op, ok, fields, idx) ==
    [by |-> i, op |-> op, ok |-> ok, fields |-> fields, idx |-> idx]

\* Mutant of FirstFields: marks the document analysed from the start.
FirstFieldsAnalysed ==
    [analysed |-> Bool(TRUE), evaluationInProgress |-> Bool(TRUE)]

\* The argument of the first update.
FirstFields == [analysed |-> Bool(FALSE), evaluationInProgress |-> Bool(TRUE)]

\* Mutant of FinalFields: writes the flags only.
FinalFieldsFlagsOnly(evaluated) ==
    [analysed |-> Bool(TRUE), evaluationInProgress |-> Bool(FALSE)]

\* The argument of the second update.
FinalFields(evaluated) ==
    [interviewQuestions |-> Arr(evaluated),
     analysed |-> Bool(TRUE),
     evaluationInProgress |-> Bool(FALSE)]

\* DocumentReference.update: the named fields are replaced, the rest kept.
Updated(d, fields) == [d EXCEPT !.data = fields @@ d.data]

\* What the outer catch turns a caught error into.
Surfaced(error) == "internal"

\* Mutant of SendResult: a failed send propagates to the outer catch.
SendResultPropagates(sendOk) == IF sendOk THEN "success" ELSE Surfaced("send")

\* What the invocation ends with once the send has settled:
\* sendEvaluationNotification catches a failed send and returns normally.
SendResult(sendOk) == "success"

InitWith(docs, auths) ==
    /\ request \in [Invocations -> [auth : auths]]
    /\ doc \in docs
    /\ pc = [i \in Invocations |-> "start"]
    /\ interviewData = [i \in Invocations |-> EmptyObject]
    /\ evaluatedQuestions = [i \in Invocations |-> <<>>]
    /\ inflight = {}
    /\ response = [i \in Invocations |-> NoResponse]
    /\ notification = [i \in Invocations |-> "none"]
    /\ outcome = [i \in Invocations |-> "pending"]
    /\ caught = [i \in Invocations |-> "none"]
    /\ ops = <<>>

\* The sequential specification: every stored document up to MaxQuestions
\* questions or no document at all; the other invocation is never made.
Init ==
    /\ InitWith({NoDoc} \cup StoredDocs(Questions, MaxQuestions), BOOLEAN)
    /\ request["inv2"].auth

(* ---------------------------------------------------------------- actions *)

\* The invocation ends inside the try block with `error` thrown.
Fails(i, error) ==
    /\ pc' = [pc EXCEPT ![i] = "done"]
    /\ outcome' = [outcome EXCEPT ![i] = Surfaced(error)]
    /\ caught' = [caught EXCEPT ![i] = error]

\* The evaluator goes on from `done` to its next await, its return or its
\* throw; `log` is ops so far and `pending` the calls still in flight.
Continue(i, done, log, pending) ==
    LET step == RunLoop(QuestionsOf(interviewData[i]), done)
        started == [n \in 1..Cardinality(step.calls) |->
                      Op(i, "call", TRUE, EmptyObject,
                         CHOOSE k \in step.calls :
                            Cardinality({j \in step.calls : j < k}) = n - 1)]
    IN  /\ evaluatedQuestions' = [evaluatedQuestions EXCEPT ![i] = step.evaluated]
        /\ inflight' = pending \cup {[by |-> i, idx |-> k] : k \in step.calls}
        /\ ops' = log \o started
        /\ CASE step.kind = "call" ->
                  /\ pc' = [pc EXCEPT ![i] = "model"]
                  /\ UNCHANGED <<outcome, caught>>
             [] step.kind = "return" ->
                  /\ pc' = [pc EXCEPT ![i] = "update2"]
                  /\ UNCHANGED <<outcome, caught>>
             [] step.kind = "throw" -> Fails(i, "TypeError: keywords")

\* The callable is invoked: the authentication check, then the read is started.
Invoke(i) ==
    /\ pc[i] = "start"
    /\ IF request[i].auth
       THEN /\ pc' = [pc EXCEPT ![i] = "get"]
            /\ UNCHANGED outcome
       ELSE /\ pc' = [pc EXCEPT ![i] = "done"]
            /\ outcome' = [outcome EXCEPT ![i] = "unauthenticated"]
    /\ UNCHANGED <<request, doc, interviewData, evaluatedQuestions, inflight,
                   response, notification, caught, ops>>

\* The read settles: it is rejected, or yields a snapshot that does not exist,
\* or yields the document, and then the first update is started.
GetCompletes(i) ==
    /\ pc[i] = "get"
    /\ \E ok \in BOOLEAN :
        /\ ops' = Append(ops, Op(i, "get", ok, EmptyObject, 0))
        /\ IF ~ok THEN Fails(i, "store: get") /\ UNCHANGED interviewData
           ELSE IF ~doc.exists THEN Fails(i, "not-found") /\ UNCHANGED interviewData
           ELSE /\ interviewData' = [interviewData EXCEPT ![i] = doc.data]
                /\ pc' = [pc EXCEPT ![i] = "update1"]
                /\ UNCHANGED <<outcome, caught>>
    /\ UNCHANGED <<request, doc, evaluatedQuestions, inflight, response,
                   notification>>

\* The first update settles; on success the evaluator is entered and runs to
\* its first await.
Update1Completes(i) ==
    /\ pc[i] = "update1"
    /\ UNCHANGED <<request, interviewData, response, notification>>
    /\ \E ok \in BOOLEAN :
        LET log == Append(ops, Op(i, "update", ok, FirstFields, 0))
        IN  IF ~ok
            THEN /\ Fails(i, "store: update")
                 /\ ops' = log
                 /\ UNCHANGED <<doc, evaluatedQuestions, inflight>>
            ELSE /\ doc' = Updated(doc, FirstFields)
                 /\ IF EmptyInput(interviewData[i])
                    THEN /\ Fails(i, "No interview questions found")
                         /\ ops' = log
                         /\ UNCHANGED <<evaluatedQuestions, inflight>>
                    ELSE Continue(i, <<>>, log, inflight)

\* A model call settles with some response; its item is pushed and the loop
\* goes on.
ModelCompletes(i) ==
    /\ pc[i] = "model"
    /\ UNCHANGED <<request, doc, interviewData, notification>>
    /\ \E r \in {c \in inflight : c.by = i}, resp \in ModelResponses :
        /\ response' = [response EXCEPT ![i] =
                          [idx |-> r.idx, kind |-> resp.kind, content |-> resp.content]]
        /\ Continue(i,
                    Append(evaluatedQuestions[i],
                           ItemFor(QuestionsOf(interviewData[i])[r.idx], resp)),
                    ops, inflight \ {r})

\* The second update settles; on success the notification send is started.
Update2Completes(i) ==
    /\ pc[i] = "update2"
    /\ UNCHANGED <<request, interviewData, evaluatedQuestions, inflight,
                   response, notification>>
    /\ \E ok \in BOOLEAN :
        /\ ops' = Append(ops, Op(i, "update", ok,
                                 FinalFields(evaluatedQuestions[i]), 0))
        /\ IF ~ok
           THEN Fails(i, "store: update") /\ UNCHANGED doc
           ELSE /\ doc' = Updated(doc, FinalFields(evaluatedQuestions[i]))
                /\ pc' = [pc EXCEPT ![i] = "notify"]
                /\ UNCHANGED <<outcome, caught>>

\* The send settles, resolved or rejected, and the invocation ends.
NotifyCompletes(i) ==
    /\ pc[i] = "notify"
    /\ \E sendOk \in BOOLEAN :
        /\ notification' = [notification EXCEPT ![i] =
                              IF sendOk THEN "sent" ELSE "failed"]
        /\ outcome' = [outcome EXCEPT ![i] = SendResult(sendOk)]
        /\ caught' = [caught EXCEPT ![i] =
                        IF SendResult(sendOk) = "success" THEN "none" ELSE "send"]
    /\ pc' = [pc EXCEPT ![i] = "done"]
    /\ UNCHANGED <<request, doc, interviewData, evaluatedQuestions, inflight,
                   response, ops>>

Next ==
    \/ Invoke(Main)
    \/ GetCompletes(Main)
    \/ Update1Completes(Main)
    \/ ModelCompletes(Main)
    \/ Update2Completes(Main)
    \/ NotifyCompletes(Main)

Spec == Init /\ [][Next]_vars

(* ------------------------------------------------ concurrent invocations *)

\* Two invocations on the same docId of a stored document whose questions
\* are an answered one, alone or after an unanswered one.
ConcDocs ==
    {[exists |-> TRUE, data |-> DocData(Arr(qs))] :
        qs \in {<<Question("qA", Str("A key-value store"), TRUE)>>,
                <<Question("qB", Null, TRUE),
                  Question("qA", Str("A key-value store"), TRUE)>>}}

InitConc == InitWith(ConcDocs, {TRUE})

NextConc ==
    \E i \in Invocations :
        \/ Invoke(i)
        \/ GetCompletes(i)
        \/ Update1Completes(i)
        \/ ModelCompletes(i)
        \/ Update2Completes(i)
        \/ NotifyCompletes(i)

SpecConc == InitConc /\ [][NextConc]_vars

(* ----------------------------------------------------------------- claims *)

\* Whether the evaluator entered by invocation i has returned its list.
Returned(i) ==
    \/ pc[i] \in {"update2", "notify"}
    \/ pc[i] = "done" /\ outcome[i] = "success"
    \/ pc[i] = "done" /\ caught[i] = "store: update"
         /\ \E n \in 1..Len(ops) :
               ops[n].by = i /\ ops[n].op = "update" /\ ~ops[n].ok
                  /\ "interviewQuestions" \in DOMAIN ops[n].fields

\* Whether invocation i has entered the evaluator (its first update succeeded).
Entered(i) ==
    \E n \in 1..Len(ops) :
        ops[n].by = i /\ ops[n].op = "update" /\ ops[n].ok /\ ops[n].fields = FirstFields

\* item is question q with score and explanation set and nothing else changed.
Annotates(item, q) ==
    /\ DOMAIN item = DOMAIN q \cup {"score", "explanation"}
    /\ \A f \in DOMAIN q \ {"score", "explanation"} : item[f] = q[f]

\* C1: whenever evaluateInterviewAnswers returns, its result has the length of
\* the input and the item at each index is the input item at that index with
\* only score and explanation overwritten; while it runs, the accumulator is
\* such a list for a prefix of the input; and on a non-empty list of questions
\* that all carry keywords, as InterviewQuestion declares, it does return,
\* whatever the model calls produce.
C1_PositionalResult ==
    \A i \in Invocations :
        LET qs == QuestionsOf(interviewData[i])
            ev == evaluatedQuestions[i]
        IN  /\ Len(ev) <= Len(qs)
            /\ \A k \in 1..Len(ev) : Annotates(ev[k], qs[k])
            /\ Returned(i) => Len(qs) > 0 /\ Len(ev) = Len(qs)
            /\ (/\ pc[i] = "done"
                /\ Entered(i)
                /\ Len(qs) > 0
                /\ \A k \in 1..Len(qs) : "keywords" \in DOMAIN qs[k])
                  => Returned(i)

\* C1 witness: a returned two-question run whose first item is the unanswered
\* placeholder and whose second item carries a parsed model score.
C1_Witness ==
    /\ Returned(Main)
    /\ Len(evaluatedQuestions[Main]) = 2
    /\ evaluatedQuestions[Main][1].explanation = Str("No answer provided")
    /\ evaluatedQuestions[Main][2].score = Num(4)
    /\ evaluatedQuestions[Main][1].question # evaluatedQuestions[Main][2].question

\* C2: once the non-empty check is passed, the evaluator never throws: every
\* invocation that entered it with a non-empty list and has ended got the
\* full list back.
C2_NoItemAbortsBatch ==
    \A i \in Invocations :
        (pc[i] = "done" /\ Entered(i) /\ ~EmptyInput(interviewData[i]))
            => /\ Returned(i)
               /\ Len(evaluatedQuestions[i]) = Len(QuestionsOf(interviewData[i]))

\* C3: the caller gets 'unauthenticated' without a caller identity,
\* 'not-found' when the snapshot does not exist and 'internal' for every other
\* failure.
C3_ErrorCategories ==
    \A i \in Invocations :
        pc[i] = "done" =>
            /\ ~request[i].auth => outcome[i] = "unauthenticated"
            /\ caught[i] = "not-found" => outcome[i] = "not-found"
            /\ caught[i] \notin {"none", "not-found"} => outcome[i] = "internal"

\* A response the claim calls unusable: no connection, a status outside 2xx,
\* content that is not JSON, or a JSON object without score or explanation.
Unusable(resp) ==
    \/ resp.kind \in {"network_error", "http_error"}
    \/ /\ resp.kind = "ok"
       /\ \/ ~JSONParse(resp.content).ok
          \/ /\ JSONParse(resp.content).value # Null
             /\ ~({"score", "explanation"} \subseteq
                    DOMAIN JSONParse(resp.content).value)

ErrorExplanation == Str("Error evaluating answer. Please try again later.")

\* C4: the item of a question whose model response was unusable has score 0
\* and the fixed error explanation.
C4_UnusableGetsPlaceholder ==
    \A i \in Invocations :
        (response[i].kind # "none" /\ Unusable(response[i])) =>
            /\ evaluatedQuestions[i][response[i].idx].score = Num(0)
            /\ evaluatedQuestions[i][response[i].idx].explanation = ErrorExplanation

\* The calls invocation i made on the store and the model, in order.
OpsBy(i) == SelectSeq(ops, LAMBDA o : o.by = i)

IsFirstUpdate(o) ==
    /\ o.op = "update"
    /\ o.fields = [analysed |-> Bool(FALSE), evaluationInProgress |-> Bool(TRUE)]

IsFinalUpdate(o, evaluated) ==
    /\ o.op = "update"
    /\ o.fields = [interviewQuestions |-> Arr(evaluated),
                   analysed |-> Bool(TRUE),
                   evaluationInProgress |-> Bool(FALSE)]

\* One read, the first update, model calls only, the second update; all
\* carried out.
FullSequence(s, evaluated) ==
    /\ Len(s) >= 3
    /\ s[1].op = "get"
    /\ IsFirstUpdate(s[2])
    /\ IsFinalUpdate(s[Len(s)], evaluated)
    /\ \A n \in 3..(Len(s) - 1) : s[n].op = "call"
    /\ \A n \in 1..Len(s) : s[n].ok

\* C5 as stated: every invocation that has ended made one read and exactly
\* the two updates, in order, with every model call between them.
C5_EveryInvocationTwoUpdates ==
    \A i \in Invocations :
        pc[i] = "done" => FullSequence(OpsBy(i), evaluatedQuestions[i])

\* C5 amended: an invocation that returned success made one read and exactly
\* the two updates, in order, with every model call between them; any
\* invocation, at any moment, has made a prefix of that sequence in which only
\* the last call can have been rejected.
C5_TwoUpdatesWhenSuccessful ==
    \A i \in Invocations :
        LET s == OpsBy(i)
        IN  /\ outcome[i] = "success" => FullSequence(s, evaluatedQuestions[i])
            /\ \A n \in 1..Len(s) :
                /\ n < Len(s) => s[n].ok
                /\ n = 1 => s[n].op = "get"
                /\ n = 2 => IsFirstUpdate(s[n])
                /\ n >= 3 =>
                    \/ s[n].op = "call"
                    \/ n = Len(s) /\ IsFinalUpdate(s[n], evaluatedQuestions[i])

\* C5 witness: a successful invocation with a model call between its updates.
C5_Witness ==
    /\ outcome[Main] = "success"
    /\ \E n \in 1..Len(ops) : ops[n].op = "call"
    /\ Len(SelectSeq(ops, LAMBDA o : o.op = "update" /\ o.ok)) = 2

\* The indices of the questions invocation i started a model call for.
CallsBy(i) == {ops[n].idx : n \in {m \in 1..Len(ops) : ops[m].by = i /\ ops[m].op = "call"}}

\* C6: a question whose candidateAnswer is null or missing gets score 0 and
\* "No answer provided" and no model call, and an invocation never makes more
\* model calls than it has questions with a candidateAnswer.
C6_UnansweredNoCall ==
    \A i \in Invocations :
        LET qs == QuestionsOf(interviewData[i])
            ev == evaluatedQuestions[i]
            absent == {k \in 1..Len(qs) :
                         Get(qs[k], "candidateAnswer") \in {Undefined, Null}}
        IN  /\ \A k \in absent \cap (1..Len(ev)) :
                  /\ ev[k].score = Num(0)
                  /\ ev[k].explanation = Str("No answer provided")
            /\ CallsBy(i) \cap absent = {}
            /\ Len(SelectSeq(ops, LAMBDA o : o.by = i /\ o.op = "call"))
                  <= Len(qs) - Cardinality(absent)

\* C6 witness: a returned run over a question with a null answer followed by
\* an answered one, with exactly one model call, made for the second.
C6_Witness ==
    /\ Returned(Main)
    /\ Len(evaluatedQuestions[Main]) = 2
    /\ Get(evaluatedQuestions[Main][1], "candidateAnswer") = Null
    /\ evaluatedQuestions[Main][1].explanation = Str("No answer provided")
    /\ CallsBy(Main) = {2}

\* C7: with interviewQuestions absent or of zero length the evaluator throws
\* the empty-input error as soon as it is entered: the invocation has ended
\* with 'internal', nothing was evaluated and no model call was made.
C7_EmptyInputAborts ==
    \A i \in Invocations :
        LET v == Get(interviewData[i], "interviewQuestions")
        IN  (Entered(i) /\ (v \in {Undefined, Null} \/ Len(v.items) = 0)) =>
                /\ pc[i] = "done"
                /\ outcome[i] = "internal"
                /\ caught[i] = "No interview questions found"
                /\ evaluatedQuestions[i] = <<>>
                /\ CallsBy(i) = {}
                /\ \A r \in inflight : r.by # i

\* C7 witness: an invocation on a document with a zero-length list has ended.
C7_Witness ==
    /\ Entered(Main)
    /\ Get(interviewData[Main], "interviewQuestions") = Arr(<<>>)
    /\ outcome[Main] = "internal"

\* C8: once the send has settled, resolved or rejected, the invocation has
\* returned success and the stored document is as the second update wrote it.
C8_SendFailureHarmless ==
    \A i \in Invocations :
        notification[i] # "none" =>
            /\ pc[i] = "done"
            /\ outcome[i] = "success"
            /\ Get(doc.data, "interviewQuestions") = Arr(evaluatedQuestions[i])
            /\ Get(doc.data, "analysed") = Bool(TRUE)
            /\ Get(doc.data, "evaluationInProgress") = Bool(FALSE)

\* C8 witness: the send was rejected.
C8_Witness == pc[Main] = "done" /\ notification[Main] = "failed"

\* C9: an invocation has at most one model call in flight, that call is for
\* the question right after the items appended so far, and the calls were
\* started in input order.
C9_SequentialCalls ==
    \A i \in Invocations :
        LET mine == {r \in inflight : r.by = i}
            calls == SelectSeq(ops, LAMBDA o : o.by = i /\ o.op = "call")
        IN  /\ Cardinality(mine) <= 1
            /\ \A r \in mine :
                  pc[i] = "model" /\ r.idx = Len(evaluatedQuestions[i]) + 1
            /\ \A m, n \in 1..Len(calls) : m < n => calls[m].idx < calls[n].idx

\* C9 witness: the second question's call is in flight after the first
\* question's call has settled and its item was appended.
C9_Witness ==
    /\ [by |-> Main, idx |-> 2] \in inflight
    /\ response[Main].idx = 1
    /\ Len(evaluatedQuestions[Main]) = 1

\* Whether ops[n] is a second update that the store carried out.
FinalWriteAt(n) ==
    /\ ops[n].op = "update"
    /\ ops[n].ok
    /\ Get(ops[n].fields, "analysed") = Bool(TRUE)

\* C10: the second update is applied whatever the document holds by then: the
\* invocation whose second update came last has its own result stored, a
\* result that annotates the questions of its own read.
C10_LastWriteWins ==
    \A n \in 1..Len(ops) :
        (FinalWriteAt(n) /\ \A m \in (n + 1)..Len(ops) : ~FinalWriteAt(m)) =>
            LET i == ops[n].by
                qs == QuestionsOf(interviewData[i])
            IN  /\ Get(doc.data, "interviewQuestions") = Arr(evaluatedQuestions[i])
                /\ Len(evaluatedQuestions[i]) = Len(qs)
                /\ \A k \in 1..Len(qs) : Annotates(evaluatedQuestions[i][k], qs[k])

\* C10 witness: a lost update.  After invocation i's read another invocation
\* stored a different interviewQuestions, and i's second update replaced it
\* with the result computed from i's read.
C10_Witness ==
    \E i, j \in Invocations : \E r, w, f \in 1..Len(ops) :
        /\ i # j /\ r < w /\ w < f
        /\ ops[r].by = i /\ ops[r].op = "get" /\ ops[r].ok
        /\ ops[w].by = j /\ FinalWriteAt(w)
        /\ ops[f].by = i /\ FinalWriteAt(f)
        /\ ops[w].fields.interviewQuestions # ops[f].fields.interviewQuestions
        /\ ops[w].fields.interviewQuestions # Get(interviewData[i], "interviewQuestions")
        /\ Get(doc.data, "interviewQuestions") = Arr(evaluatedQuestions[i])

\* C11: an invocation that has written evaluationInProgress = true and has
\* ended, with success or with an error, wrote evaluationInProgress = false
\* afterwards.
C11_InProgressCleared ==
    \A i \in Invocations :
        pc[i] = "done" =>
            \A n \in 1..Len(ops) :
                (/\ ops[n].by = i /\ ops[n].op = "update" /\ ops[n].ok
                 /\ Get(ops[n].fields, "evaluationInProgress") = Bool(TRUE))
                  => \E m \in (n + 1)..Len(ops) :
                        /\ ops[m].by = i /\ ops[m].op = "update" /\ ops[m].ok
                        /\ Get(ops[m].fields, "evaluationInProgress") = Bool(FALSE)

====
